---- MODULE Spec2Model ----
(***************************************************************************)
(* The sproc service supervisor (src/src/model.rs, src/src/server.rs).     *)
(*                                                                         *)
(* The persisted configuration file (services.toml) is one shared value    *)
(* that every actor reads whole (get_config) and writes whole              *)
(* (update_config).  The actors are the observation tasks created by       *)
(* Service::spawn, the /start, /kill and /info handlers of the control     *)
(* server, and the operating system, which lets a process exit.  Each file *)
(* read, file write, process-table access and signal is one step, so that  *)
(* the steps of different actors interleave as the threads of the tokio    *)
(* runtime do.                                                             *)
(***************************************************************************)
EXTENDS Integers, FiniteSets, Sequences, TLC

\* ------------------------------------------------------------------ bounds

\* Process identifiers the operating system hands out, 1..MaxPid, each once.
MaxPid == 2

\* Observation tasks (tokio tasks created by Service::spawn) alive at a time.
MaxTasks == 2

Pids == 1 .. MaxPid

Tasks == 1 .. MaxTasks

\* ------------------------------------------------------------- the domain

\* Service names a request can carry: two defined services and one name
\* that no definition has.
Names == {"web", "daemon", "ghost"}

\* Keys a request can carry; the server compares with the key of the
\* configuration it was started with.
Keys == {"secret", "wrong"}

ServerKey == "secret"

\* The names the configuration files define.
DefinedNames == {"web", "daemon"}

\* A services entry: no definition, or a definition with its restart flag.
Undefined == "undefined"

NoRestart == "restart=false"

Restart == "restart=true"

ServiceValues == {Undefined, NoRestart, Restart}

\* service_states holds (ServiceState::Running, pid) or no entry; the code
\* never writes a Stopped entry.  NoRecord stands for the absent entry.
NoRecord == 0

\* ServicesConfiguration::default(): no services, no states.
DefaultConfig ==
    [services |-> [n \in Names |-> Undefined],
     service_states |-> [n \in Names |-> NoRecord]]

\* The configuration the supervisor is started on: web does not restart,
\* daemon does, nothing is running.
InitialConfig ==
    [services |-> [n \in Names |->
                     CASE n = "web" -> NoRestart
                       [] n = "daemon" -> Restart
                       [] OTHER -> Undefined],
     service_states |-> [n \in Names |-> NoRecord]]

\* ------------------------------------------------------------------ errors

\* std::io::Error values of model.rs: the ErrorKind and the message.
ErrAlreadyRunning == [kind |-> "AlreadyExists", msg |-> "Service is already running."]

ErrDoesNotExist == [kind |-> "NotFound", msg |-> "Service does not exist."]

ErrNotLoaded == [kind |-> "NotFound", msg |-> "Service is not loaded."]

ErrNotRunning == [kind |-> "NotConnected", msg |-> "Service is not running."]

ErrProcessLookup == [kind |-> "NotConnected", msg |-> "Failed to get process from PID."]

\* The io::Error of a failed fs::write in update_config.
ErrConfigIO == [kind |-> "Other", msg |-> "failed to write services.toml"]
\* The io::Error of a failed cmd.spawn() in Service::run.
ErrSpawnIO == [kind |-> "Other", msg |-> "failed to spawn the command"]
NoError == [kind |-> "Ok", msg |-> ""]

\* APIReturn of server.rs: {ok, data}.  /start and /kill carry a u16; /info
\* carries a string, modelled as 0 for the empty string and as the process
\* identifier for the serialised ServiceInfo of that process.
NoResponse == [op |-> "none", ok |-> FALSE, data |-> 0]

Response(op, ok, data) == [op |-> op, ok |-> ok, data |-> data]

\* ------------------------------------------------------------------- state

VARIABLES
    file,        \* services.toml: [services, service_states]
    pstate,      \* process table: pid -> "unused" | "running" | "zombie" | "gone"
    psvc,        \* pid -> the service whose command the process runs
    signalled,   \* pids that process.kill() of Service::kill terminated
    tpc,         \* task -> position in the loop of Service::spawn
    tname,       \* task -> `name`
    tcfg,        \* task -> `config`, the snapshot the task holds
    tpid,        \* task -> process.id() of the child it spawned last
    tcycle,      \* task -> 0 in the first pass of the loop, 1 after `continue`
    terr,        \* task -> the error its expect() panicked on
                 \* (a task that has ended keeps tpc and terr only)
    kpc,         \* /kill handler: position in kill_request / Service::kill
    kname,       \* /kill handler: body.service
    kcfg,        \* /kill handler: `config` read by get_config
    ksup,        \* /kill handler: `supposed_to_restart` of Service::kill
    resp,        \* the response the server sent last
    primary,     \* $HOME/.config/sproc/services.toml as TOML text
    inherited,   \* path -> the file an `inherit` entry names, as TOML text
    res,         \* the ServicesConfiguration get_config returned last
    first,       \* the ServicesConfiguration the first get_config returned
    lpc          \* position in the sequence get_config, update_config, get_config

taskVars == <<tpc, tname, tcfg, tpid, tcycle, terr>>

killVars == <<kpc, kname, kcfg, ksup>>

procVars == <<pstate, psvc, signalled>>

\* The store at the level of the TOML text.  Only SpecStore moves these; the
\* other specifications work on `file`, the configuration as parsed.
storeVars == <<primary, inherited, res, first, lpc>>

vars == <<file, pstate, psvc, signalled, tpc, tname, tcfg, tpid, tcycle, terr,
          kpc, kname, kcfg, ksup, resp, primary, inherited, res, first, lpc>>

\* ------------------------------------------------------- pure operations

\* sys.process(Pid::from(pid)): the process table holds a process until its
\* parent has waited for it.
SysProcess(pid) == pid \in Pids /\ pstate[pid] \in {"running", "zombie"}

\* Service::run with its two checks in the other order: the definition first.
RunResultDefinitionFirst(name, cnf) ==
    IF cnf.services[name] = Undefined THEN ErrDoesNotExist
    ELSE IF cnf.service_states[name] # NoRecord THEN ErrAlreadyRunning
    ELSE NoError

\* The checks of Service::run before the command is built.
RunResult(name, cnf) ==
    IF cnf.service_states[name] # NoRecord THEN ErrAlreadyRunning
    ELSE IF cnf.services[name] = Undefined THEN ErrDoesNotExist
    ELSE NoError

\* Service::kill without the lookup of the definition.
KillResultNoDefinitionCheck(name, config) ==
    IF config.service_states[name] = NoRecord THEN ErrNotLoaded
    ELSE IF ~SysProcess(config.service_states[name]) THEN ErrProcessLookup
    ELSE NoError

\* Service::kill without the process lookup.
KillResultNoLookup(name, config) ==
    IF config.service_states[name] = NoRecord THEN ErrNotLoaded
    ELSE IF config.services[name] = Undefined THEN ErrDoesNotExist
    ELSE NoError

\* The checks of Service::kill before it touches anything.
KillResult(name, config) ==
    IF config.service_states[name] = NoRecord THEN ErrNotLoaded
    ELSE IF config.services[name] = Undefined THEN ErrDoesNotExist
    ELSE IF ~SysProcess(config.service_states[name]) THEN ErrProcessLookup
    ELSE NoError

\* Service::info: the error, or NoError when a snapshot is produced.
InfoResult(name, service_states) ==
    IF service_states[name] = NoRecord THEN ErrNotLoaded
    ELSE IF ~SysProcess(service_states[name]) THEN ErrProcessLookup
    ELSE NoError

\* The identifier of the process cmd.spawn() creates next.
FreshPid == CHOOSE p \in Pids : pstate[p] = "unused" /\ \A q \in Pids : pstate[q] = "unused" => p <= q

CanSpawn == \E p \in Pids : pstate[p] = "unused"

TaskEnded(t) == tpc[t] \in {"free", "done", "returned", "panicked"}

\* ------------------------------------------- the store and its TOML text

\* A key of a TOML table, and an Option of the configuration: absent (None)
\* or present with a value.
Absent == <<>>
Present(v) == <<v>>

\* The paths an `inherit` list may name.
Paths == {"base.toml", "extra.toml"}

EmptyMap == [n \in {} |-> Absent]

\* The functions from a subset of D to V: a HashMap with keys in D.
Maps(D, V) == UNION {[X -> V] : X \in SUBSET D}

\* impl Default for ServerConfiguration.
DefaultServerConfiguration == [port |-> 6374, key |-> ""]

\* impl Default for ServicesConfiguration.
DefaultServicesConfiguration ==
    [inherit |-> Absent, services |-> EmptyMap,
     server |-> DefaultServerConfiguration, service_states |-> EmptyMap]

\* The line update_config puts in front of the TOML.
Header == "# DO **NOT** MANUALLY EDIT THIS FILE!"

\* A file: unreadable (fs::read_to_string fails), or its text, which is a
\* comment line and the keys of the top-level table.
EmptyText ==
    [comment |-> "", inherit |-> Absent, services |-> EmptyMap,
     server |-> Absent, service_states |-> Absent]

NoFile == [exists |-> FALSE, text |-> EmptyText]

\* A [services.name] table as written by hand: `restart` may be left out.
ServiceTexts ==
    { [command |-> "a", restart |-> Absent],
      [command |-> "b", restart |-> Present(TRUE)] }

\* The `inherit` lists of the primary file.
InheritLists ==
    { <<>>, <<"base.toml">>, <<"extra.toml">>,
      <<"base.toml", "extra.toml">>, <<"extra.toml", "base.toml">> }

\* The settings and the state table a services.toml may carry.
OtherServer == [port |-> 8080, key |-> "secret"]
OtherStates == [n \in {"web"} |-> <<"Running", 1>>]
ForeignServer == [port |-> 9000, key |-> "foreign"]
ForeignStates == [n \in {"daemon"} |-> <<"Running", 2>>]

\* The primary files: absent, or a text with its `services` and any of the
\* other keys.
PrimaryFiles ==
    {NoFile} \cup
    { [exists |-> TRUE,
       text |-> [comment |-> "", inherit |-> i, services |-> m,
                 server |-> sv, service_states |-> st]] :
        i \in {Absent} \cup {Present(l) : l \in InheritLists},
        m \in Maps(DefinedNames, ServiceTexts),
        sv \in {Absent, Present(OtherServer)},
        st \in {Absent, Present(OtherStates)} }

\* The files an `inherit` entry may name: unreadable, definitions only, or the
\* whole services.toml of another supervisor.
InheritedFiles ==
    {NoFile} \cup
    { [exists |-> TRUE,
       text |-> [comment |-> "", inherit |-> Absent, services |-> m,
                 server |-> x[1], service_states |-> x[2]]] :
        m \in Maps(DefinedNames, ServiceTexts),
        x \in { <<Absent, Absent>>,
                <<Present(ForeignServer), Present(ForeignStates)>> } }

\* Deserialize for Service: #[serde(default)] restart.
ServiceFromToml(t) ==
    [command |-> t.command,
     restart |-> IF t.restart = Absent THEN FALSE ELSE t.restart[1]]

\* toml::from_str::<ServicesConfiguration>: the comment is skipped, `inherit`
\* is an Option, `server` and `service_states` are #[serde(default)].
FromStr(text) ==
    [inherit |-> text.inherit,
     services |-> [n \in DOMAIN text.services |-> ServiceFromToml(text.services[n])],
     server |-> IF text.server = Absent THEN DefaultServerConfiguration
                ELSE text.server[1],
     service_states |-> IF text.service_states = Absent THEN EmptyMap
                        ELSE text.service_states[1]]

\* toml::to_string_pretty::<ServicesConfiguration>: a None is left out, every
\* other field is written.
ToStringPretty(contents) ==
    [comment |-> "",
     inherit |-> contents.inherit,
     services |-> [n \in DOMAIN contents.services |->
                     [command |-> contents.services[n].command,
                      restart |-> Present(contents.services[n].restart)]],
     server |-> Present(contents.server),
     service_states |-> Present(contents.service_states)]

\* res.services.insert(name, service) for every service of `more`.
InsertAll(services, more) ==
    [n \in DOMAIN services \cup DOMAIN more |->
        IF n \in DOMAIN more THEN more[n] ELSE services[n]]

\* "handle inherits": the loop over the paths, skipping what cannot be read.
RECURSIVE HandleInherits(_, _, _)
HandleInherits(services, paths, files) ==
    IF paths = <<>> THEN services
    ELSE LET path == Head(paths)
             next == IF files[path].exists
                     THEN InsertAll(services, FromStr(files[path].text).services)
                     ELSE services
         IN  HandleInherits(next, Tail(paths), files)

\* get_config where the primary file is authoritative and the inherited files
\* only fill gaps.
GetConfigPrimaryAuthoritative(primaryFile, files) ==
    IF ~primaryFile.exists THEN DefaultServicesConfiguration
    ELSE LET parsed == FromStr(primaryFile.text)
             paths == IF parsed.inherit = Absent THEN <<>> ELSE parsed.inherit[1]
         IN  [parsed EXCEPT !.services =
                InsertAll(HandleInherits(EmptyMap, paths, files), parsed.services)]

\* ServicesConfiguration::get_config.
GetConfig(primaryFile, files) ==
    IF ~primaryFile.exists THEN DefaultServicesConfiguration
    ELSE LET parsed == FromStr(primaryFile.text)
             paths == IF parsed.inherit = Absent THEN <<>> ELSE parsed.inherit[1]
         IN  [parsed EXCEPT !.services = HandleInherits(parsed.services, paths, files)]

\* update_config leaving the state table out of the file.
UpdateConfigWithoutStates(contents) ==
    [exists |-> TRUE,
     text |-> [ToStringPretty(contents) EXCEPT !.comment = Header,
                                               !.service_states = Absent]]

\* ServicesConfiguration::update_config: the file after the write.
UpdateConfig(contents) ==
    [exists |-> TRUE, text |-> [ToStringPretty(contents) EXCEPT !.comment = Header]]

\* -------------------------------------------------------------------- Init

ServerInit ==
    /\ file = InitialConfig
    /\ pstate = [p \in Pids |-> "unused"]
    /\ psvc = [p \in Pids |-> "ghost"]
    /\ signalled = {}
    /\ tpc = [t \in Tasks |-> "free"]
    /\ tname = [t \in Tasks |-> "ghost"]
    /\ tcfg = [t \in Tasks |-> DefaultConfig]
    /\ tpid = [t \in Tasks |-> NoRecord]
    /\ tcycle = [t \in Tasks |-> 0]
    /\ terr = [t \in Tasks |-> NoError]
    /\ kpc = "idle"
    /\ kname = "ghost"
    /\ kcfg = DefaultConfig
    /\ ksup = FALSE
    /\ resp = NoResponse

\* The store at rest: no file read or written at the level of the text.
StoreAtRest ==
    /\ primary = NoFile
    /\ inherited = [p \in Paths |-> NoFile]
    /\ res = DefaultServicesConfiguration
    /\ first = DefaultServicesConfiguration
    /\ lpc = "rest"

Init == ServerInit /\ StoreAtRest

\* ------------------------------------------------------------ POST /start

\* observe_request: the key check, then Service::spawn, which creates the task
\* and returns Ok(()) whatever the task will do.
StartRequest(name, key) ==
    /\ UNCHANGED storeVars
    /\ IF key # ServerKey
       THEN /\ resp' = Response("start", FALSE, 401)
            /\ UNCHANGED <<file, procVars, taskVars, killVars>>
       ELSE /\ \E t \in Tasks : TaskEnded(t)
            /\ LET t == CHOOSE u \in Tasks : TaskEnded(u) /\ \A w \in Tasks : TaskEnded(w) => u <= w
               IN  /\ tpc' = [tpc EXCEPT ![t] = "loop"]
                   /\ tname' = [tname EXCEPT ![t] = name]
                   /\ tcfg' = [tcfg EXCEPT ![t] = DefaultConfig]
                   /\ tpid' = [tpid EXCEPT ![t] = NoRecord]
                   /\ tcycle' = [tcycle EXCEPT ![t] = 0]
                   /\ terr' = [terr EXCEPT ![t] = NoError]
            /\ resp' = Response("start", TRUE, 200)
            /\ UNCHANGED <<file, procVars, killVars>>

\* ------------------------------------------------ the observation task

\* Top of the loop: get_config, then Service::wait up to the spawn.  A failed
\* Service::run panics the task at expect("Failed to wait for service").
TaskStart(t) ==
    /\ UNCHANGED storeVars
    /\ tpc[t] = "loop"
    /\ LET config == file
           r == RunResult(tname[t], config)
       IN  IF r # NoError
           THEN /\ tpc' = [tpc EXCEPT ![t] = "panicked"]
                /\ terr' = [terr EXCEPT ![t] = r]
                /\ tname' = [tname EXCEPT ![t] = "ghost"]
                /\ tpid' = [tpid EXCEPT ![t] = NoRecord]
                /\ tcycle' = [tcycle EXCEPT ![t] = 0]
                /\ UNCHANGED <<file, procVars, tcfg, killVars, resp>>
           ELSE /\ CanSpawn
                /\ pstate' = [pstate EXCEPT ![FreshPid] = "running"]
                /\ psvc' = [psvc EXCEPT ![FreshPid] = tname[t]]
                /\ tpid' = [tpid EXCEPT ![t] = FreshPid]
                /\ tcfg' = [tcfg EXCEPT ![t] =
                              [config EXCEPT !.service_states[tname[t]] = FreshPid]]
                /\ tpc' = [tpc EXCEPT ![t] = "save"]
                /\ UNCHANGED <<file, signalled, tname, tcycle, terr, killVars, resp>>

\* Service::wait: update_config(config.clone()) with the record inserted.
TaskSave(t) ==
    /\ UNCHANGED storeVars
    /\ tpc[t] = "save"
    /\ file' = tcfg[t]
    /\ tcfg' = [tcfg EXCEPT ![t] = DefaultConfig]
    /\ tpc' = [tpc EXCEPT ![t] = "observe"]
    /\ UNCHANGED <<procVars, tname, tpid, tcycle, terr, killVars, resp>>

\* Service::observe: the lookup of the recorded pid, then process.wait(),
\* which returns once the process has ended and takes it off the table.
TaskObserve(t) ==
    /\ UNCHANGED storeVars
    /\ tpc[t] = "observe"
    /\ IF ~SysProcess(tpid[t])
       THEN /\ tpc' = [tpc EXCEPT ![t] = "panicked"]
            /\ terr' = [terr EXCEPT ![t] = ErrProcessLookup]
            /\ tname' = [tname EXCEPT ![t] = "ghost"]
            /\ tpid' = [tpid EXCEPT ![t] = NoRecord]
            /\ tcycle' = [tcycle EXCEPT ![t] = 0]
            /\ UNCHANGED <<file, procVars, tcfg, killVars, resp>>
       ELSE /\ pstate[tpid[t]] = "zombie"
            /\ pstate' = [pstate EXCEPT ![tpid[t]] = "gone"]
            /\ tpc' = [tpc EXCEPT ![t] = "exited"]
            /\ UNCHANGED <<file, psvc, signalled, tname, tcfg, tpid, tcycle, terr,
                           killVars, resp>>

\* The exit handling deciding on the configuration the server was started
\* with, as the handlers' State(config) is, and not on the file.
TaskReloadStartupConfig(t) ==
    /\ UNCHANGED storeVars
    /\ tpc[t] = "exited"
    /\ tcfg' = [tcfg EXCEPT ![t] = InitialConfig]
    /\ tpc' = [tpc EXCEPT ![t] = "decide"]
    /\ UNCHANGED <<file, procVars, tname, tpid, tcycle, terr, killVars, resp>>

\* After the exit: "pull real config", the second get_config of the loop.
TaskReload(t) ==
    /\ UNCHANGED storeVars
    /\ tpc[t] = "exited"
    /\ tcfg' = [tcfg EXCEPT ![t] = file]
    /\ tpc' = [tpc EXCEPT ![t] = "decide"]
    /\ UNCHANGED <<file, procVars, tname, tpid, tcycle, terr, killVars, resp>>

\* The rest of the loop body: return when the service is no longer defined,
\* else remove the record, write the configuration, and break or continue on
\* the restart flag of the configuration just read.
TaskRemove(t) ==
    /\ UNCHANGED storeVars
    /\ tpc[t] = "decide"
    /\ LET config == tcfg[t]
           service == config.services[tname[t]]
       IN  IF service = Undefined
           THEN /\ tpc' = [tpc EXCEPT ![t] = "returned"]
                /\ tname' = [tname EXCEPT ![t] = "ghost"]
                /\ tcycle' = [tcycle EXCEPT ![t] = 0]
                /\ UNCHANGED file
           ELSE /\ file' = [config EXCEPT !.service_states[tname[t]] = NoRecord]
                /\ IF service = NoRestart
                   THEN /\ tpc' = [tpc EXCEPT ![t] = "done"]
                        /\ tname' = [tname EXCEPT ![t] = "ghost"]
                        /\ tcycle' = [tcycle EXCEPT ![t] = 0]
                   ELSE /\ tpc' = [tpc EXCEPT ![t] = "loop"]
                        /\ tcycle' = [tcycle EXCEPT ![t] = 1]
                        /\ UNCHANGED tname
    /\ tcfg' = [tcfg EXCEPT ![t] = DefaultConfig]
    /\ tpid' = [tpid EXCEPT ![t] = NoRecord]
    /\ UNCHANGED <<procVars, terr, killVars, resp>>

\* The operating system: a running process ends on its own (it finishes or
\* crashes); process.wait() of its observation task will see it.
ProcExit(p) ==
    /\ UNCHANGED storeVars
    /\ pstate[p] = "running"
    /\ pstate' = [pstate EXCEPT ![p] = "zombie"]
    /\ UNCHANGED <<file, psvc, signalled, taskVars, killVars, resp>>

\* ------------------------------------------------------------- POST /kill

\* kill_request without its key check.
KillRequestNoKeyCheck(name, key) ==
    /\ UNCHANGED storeVars
    /\ kpc \in {"idle", "done"}
    /\ LET config == file
       IN  IF KillResult(name, config) # NoError
           THEN /\ resp' = Response("kill", FALSE, 400)
                /\ UNCHANGED <<file, procVars, taskVars, killVars>>
           ELSE /\ kname' = name
                /\ kcfg' = config
                /\ ksup' = (config.services[name] = Restart)
                /\ kpc' = IF config.services[name] = Restart
                          THEN "disable" ELSE "signal"
                /\ UNCHANGED <<file, procVars, taskVars, resp>>

\* kill_request up to the first effect: the key check, get_config, and the
\* checks of Service::kill, the process lookup included.
KillRequest(name, key) ==
    /\ UNCHANGED storeVars
    /\ kpc \in {"idle", "done"}
    /\ IF key # ServerKey
       THEN /\ resp' = Response("kill", FALSE, 401)
            /\ UNCHANGED <<file, procVars, taskVars, killVars>>
       ELSE LET config == file
            IN  IF KillResult(name, config) # NoError
                THEN /\ resp' = Response("kill", FALSE, 400)
                     /\ UNCHANGED <<file, procVars, taskVars, killVars>>
                ELSE /\ kname' = name
                     /\ kcfg' = config
                     /\ ksup' = (config.services[name] = Restart)
                     /\ kpc' = IF config.services[name] = Restart
                               THEN "disable" ELSE "signal"
                     /\ UNCHANGED <<file, procVars, taskVars, resp>>

\* supposed_to_restart: service.restart = false; update_config(config_c).
KillDisable ==
    /\ UNCHANGED storeVars
    /\ kpc = "disable"
    /\ file' = [kcfg EXCEPT !.services[kname] = NoRestart]
    /\ kpc' = "signal"
    /\ UNCHANGED <<procVars, taskVars, kname, kcfg, ksup, resp>>

\* process.kill(), followed by the sleep of one second, which orders nothing.
KillSignal ==
    /\ UNCHANGED storeVars
    /\ kpc = "signal"
    /\ LET pid == kcfg.service_states[kname]
       IN  IF pstate[pid] = "running"
           THEN /\ pstate' = [pstate EXCEPT ![pid] = "zombie"]
                /\ signalled' = signalled \cup {pid}
           ELSE UNCHANGED <<pstate, signalled>>
    /\ kpc' = IF ksup THEN "restore" ELSE "finish"
    /\ UNCHANGED <<file, psvc, taskVars, kname, kcfg, ksup, resp>>

\* supposed_to_restart: update_config(config.clone()), "set config back".
KillRestore ==
    /\ UNCHANGED storeVars
    /\ kpc = "restore"
    /\ file' = kcfg
    /\ kpc' = "finish"
    /\ UNCHANGED <<procVars, taskVars, kname, kcfg, ksup, resp>>

\* kill_request after Service::kill returned Ok: remove the record from the
\* configuration read at the start, write it, answer 200.
KillFinish ==
    /\ UNCHANGED storeVars
    /\ kpc = "finish"
    /\ file' = [kcfg EXCEPT !.service_states[kname] = NoRecord]
    /\ kpc' = "done"
    /\ kcfg' = DefaultConfig
    /\ resp' = Response("kill", TRUE, 200)
    /\ UNCHANGED <<procVars, taskVars, kname, ksup>>

\* ------------------------------------------------------------- POST /info

\* info_request reconciling the state table: a record whose process is gone
\* is removed and the configuration written back.
InfoRequestReconcile(name, key) ==
    /\ UNCHANGED storeVars
    /\ resp' = IF key # ServerKey THEN Response("info", FALSE, 0)
               ELSE IF InfoResult(name, file.service_states) # NoError
                    THEN Response("info", FALSE, 0)
                    ELSE Response("info", TRUE, file.service_states[name])
    /\ file' = IF key = ServerKey
                  /\ InfoResult(name, file.service_states) = ErrProcessLookup
               THEN [file EXCEPT !.service_states[name] = NoRecord]
               ELSE file
    /\ UNCHANGED <<procVars, taskVars, killVars>>

\* info_request: the key check, get_config, Service::info.
InfoRequest(name, key) ==
    /\ UNCHANGED storeVars
    /\ resp' = IF key # ServerKey THEN Response("info", FALSE, 0)
               ELSE IF InfoResult(name, file.service_states) # NoError
                    THEN Response("info", FALSE, 0)
                    ELSE Response("info", TRUE, file.service_states[name])
    /\ UNCHANGED <<file, procVars, taskVars, killVars>>

\* ------------------------------------------- edits of the configuration

\* The operator changes the persisted configuration while the supervisor
\* runs (`sproc pin` of an edited source file): a service is defined, or its
\* restart flag is set.
OperatorDefine(name, value) ==
    /\ UNCHANGED storeVars
    /\ file.services[name] # value
    /\ file' = [file EXCEPT !.services[name] = value]
    /\ UNCHANGED <<procVars, taskVars, killVars, resp>>

\* The operator removes the definition of a service.
OperatorRemove(name) ==
    /\ UNCHANGED storeVars
    /\ file.services[name] # Undefined
    /\ file' = [file EXCEPT !.services[name] = Undefined]
    /\ UNCHANGED <<procVars, taskVars, killVars, resp>>

\* ----------------------------------------------------- the specifications

TaskStep ==
    \/ \E t \in Tasks : TaskStart(t)
    \/ \E t \in Tasks : TaskSave(t)
    \/ \E t \in Tasks : TaskObserve(t)
    \/ \E t \in Tasks : TaskReload(t)
    \/ \E t \in Tasks : TaskRemove(t)

KillStep ==
    \/ \E n \in Names, k \in Keys : KillRequest(n, k)
    \/ KillDisable
    \/ KillSignal
    \/ KillRestore
    \/ KillFinish

\* The control server, its observation tasks and the processes.
Next ==
    \/ \E n \in Names, k \in Keys : StartRequest(n, k)
    \/ TaskStep
    \/ \E p \in Pids : ProcExit(p)
    \/ KillStep
    \/ \E n \in Names, k \in Keys : InfoRequest(n, k)

Spec == Init /\ [][Next]_vars

\* Starts and observation tasks, with an operator editing the configuration
\* under them.
NextEdit ==
    \/ \E n \in Names, k \in Keys : StartRequest(n, k)
    \/ TaskStep
    \/ \E p \in Pids : ProcExit(p)
    \/ \E n \in DefinedNames, v \in {NoRestart, Restart} : OperatorDefine(n, v)
    \/ \E n \in DefinedNames : OperatorRemove(n)

SpecEdit == Init /\ [][NextEdit]_vars

\* ------------------------------------------------------- failing I/O

\* Service::run: every check passes and cmd.spawn() fails; Service::wait
\* returns the error and the task panics at expect("Failed to wait for
\* service").
TaskSpawnFail(t) ==
    /\ UNCHANGED storeVars
    /\ tpc[t] = "loop"
    /\ RunResult(tname[t], file) = NoError
    /\ tpc' = [tpc EXCEPT ![t] = "panicked"]
    /\ terr' = [terr EXCEPT ![t] = ErrSpawnIO]
    /\ tname' = [tname EXCEPT ![t] = "ghost"]
    /\ tpid' = [tpid EXCEPT ![t] = NoRecord]
    /\ tcycle' = [tcycle EXCEPT ![t] = 0]
    /\ UNCHANGED <<file, procVars, tcfg, killVars, resp>>

\* Service::wait: update_config fails and expect("Failed to update config")
\* panics; the child that was spawned runs on.
TaskSaveFail(t) ==
    /\ UNCHANGED storeVars
    /\ tpc[t] = "save"
    /\ tpc' = [tpc EXCEPT ![t] = "panicked"]
    /\ terr' = [terr EXCEPT ![t] = ErrConfigIO]
    /\ tname' = [tname EXCEPT ![t] = "ghost"]
    /\ tcfg' = [tcfg EXCEPT ![t] = DefaultConfig]
    /\ tpid' = [tpid EXCEPT ![t] = NoRecord]
    /\ tcycle' = [tcycle EXCEPT ![t] = 0]
    /\ UNCHANGED <<file, procVars, killVars, resp>>

\* The exit handling: the record is removed from the snapshot, update_config
\* fails and expect("Failed to update config") panics.
TaskRemoveFail(t) ==
    /\ UNCHANGED storeVars
    /\ tpc[t] = "decide"
    /\ tcfg[t].services[tname[t]] # Undefined
    /\ tpc' = [tpc EXCEPT ![t] = "panicked"]
    /\ terr' = [terr EXCEPT ![t] = ErrConfigIO]
    /\ tname' = [tname EXCEPT ![t] = "ghost"]
    /\ tcfg' = [tcfg EXCEPT ![t] = DefaultConfig]
    /\ tpid' = [tpid EXCEPT ![t] = NoRecord]
    /\ tcycle' = [tcycle EXCEPT ![t] = 0]
    /\ UNCHANGED <<file, procVars, killVars, resp>>

\* Service::kill going on to the signal although the write of restart=false
\* failed.
KillDisableFailIgnored ==
    /\ UNCHANGED storeVars
    /\ kpc = "disable"
    /\ kpc' = "signal"
    /\ UNCHANGED <<file, procVars, taskVars, kname, kcfg, ksup, resp>>

\* Service::kill: update_config(config_c.clone())? fails; the error is
\* returned before process.kill() and kill_request answers 400.
KillDisableFail ==
    /\ UNCHANGED storeVars
    /\ kpc = "disable"
    /\ kpc' = "idle"
    /\ kname' = "ghost"
    /\ kcfg' = DefaultConfig
    /\ ksup' = FALSE
    /\ resp' = Response("kill", FALSE, 400)
    /\ UNCHANGED <<file, procVars, taskVars>>

\* Service::kill: the write that sets the configuration back fails after the
\* signal; the error is returned and kill_request answers 400.
KillRestoreFail ==
    /\ UNCHANGED storeVars
    /\ kpc = "restore"
    /\ kpc' = "idle"
    /\ kname' = "ghost"
    /\ kcfg' = DefaultConfig
    /\ ksup' = FALSE
    /\ resp' = Response("kill", FALSE, 400)
    /\ UNCHANGED <<file, procVars, taskVars>>

\* kill_request: update_config(..).unwrap() panics in the handler; no
\* response is sent.
KillFinishFail ==
    /\ UNCHANGED storeVars
    /\ kpc = "finish"
    /\ kpc' = "idle"
    /\ kname' = "ghost"
    /\ kcfg' = DefaultConfig
    /\ ksup' = FALSE
    /\ UNCHANGED <<file, procVars, taskVars, resp>>

\* Authorised starts and kills of the services defined at startup, where a
\* write of the file or a spawn may fail.
NextFail ==
    \/ \E n \in DefinedNames : StartRequest(n, ServerKey)
    \/ TaskStep
    \/ \E p \in Pids : ProcExit(p)
    \/ \E n \in DefinedNames : KillRequest(n, ServerKey)
    \/ KillDisable
    \/ KillSignal
    \/ KillRestore
    \/ KillFinish
    \/ \E t \in Tasks : TaskSpawnFail(t)
    \/ \E t \in Tasks : TaskSaveFail(t)
    \/ \E t \in Tasks : TaskRemoveFail(t)
    \/ KillDisableFail
    \/ KillRestoreFail
    \/ KillFinishFail

SpecFail == Init /\ [][NextFail]_vars

\* Authorised starts and kills of the services defined at startup, with an
\* operator removing definitions under them.
NextKillEdit ==
    \/ \E n \in DefinedNames : StartRequest(n, ServerKey)
    \/ TaskStep
    \/ \E p \in Pids : ProcExit(p)
    \/ \E n \in DefinedNames : KillRequest(n, ServerKey)
    \/ KillDisable
    \/ KillSignal
    \/ KillRestore
    \/ KillFinish
    \/ \E n \in DefinedNames : OperatorRemove(n)

SpecKillEdit == Init /\ [][NextKillEdit]_vars

\* ------------------------------------------------- the store on its own

supervisorVars == <<file, procVars, taskVars, killVars, resp>>

\* The supervisor at rest; the files are whatever the operator left there.
StoreInit ==
    /\ ServerInit
    /\ primary \in PrimaryFiles
    /\ inherited \in [Paths -> InheritedFiles]
    /\ res = DefaultServicesConfiguration
    /\ first = DefaultServicesConfiguration
    /\ lpc = "start"

\* A call of get_config.
LoadConfig ==
    /\ lpc \in {"start", "saved"}
    /\ res' = GetConfig(primary, inherited)
    /\ first' = IF lpc = "start" THEN res' ELSE first
    /\ lpc' = IF lpc = "start" THEN "loaded" ELSE "reloaded"
    /\ UNCHANGED <<primary, inherited, supervisorVars>>

\* A call of update_config with the configuration just loaded.
SaveConfig ==
    /\ lpc = "loaded"
    /\ primary' = UpdateConfig(res)
    /\ lpc' = "saved"
    /\ UNCHANGED <<inherited, res, first, supervisorVars>>

NextStore == LoadConfig \/ SaveConfig

\* get_config, update_config, get_config over every primary file and every
\* pair of inherited files.
SpecStore == StoreInit /\ [][NextStore]_vars

\* ------------------------------------------------------------- helpers

RunningProcesses(name) == {p \in Pids : pstate[p] = "running" /\ psvc[p] = name}

\* An observation task of `name` is somewhere in its loop.
ActiveTask(name) == \E t \in Tasks : ~TaskEnded(t) /\ tname[t] = name

\* A process of `name` has ended and its observation task has not yet
\* finished handling the exit.
ExitHandlingPending(name) ==
    \E t \in Tasks :
        /\ tname[t] = name
        /\ \/ tpc[t] \in {"exited", "decide"}
           \/ tpc[t] \in {"save", "observe"} /\ pstate[tpid[t]] # "running"

KillInProgress(name) == kname = name /\ kpc \notin {"idle", "done"}

\* The record of `name` names a process that is no longer in the process table.
StaleRecord(name) ==
    /\ file.service_states[name] # NoRecord
    /\ pstate[file.service_states[name]] = "gone"

\* No observation task is in its loop and no /kill handler is under way.
Quiescent == (\A t \in Tasks : TaskEnded(t)) /\ kpc \in {"idle", "done"}

\* ---------------------------------------------------------------- claims

\* C1: under any interleaving of start requests for one service name, at most
\* one of them spawns a process while the service is running, so a name never
\* has two live processes.
C1_AtMostOneLiveProcess ==
    \A n \in Names : Cardinality(RunningProcesses(n)) <= 1

\* C2: once kill of a service whose restart flag was true has completed and
\* the exit of the killed instance has been handled by its observation task,
\* the persisted restart flag of the service is true again.
C2_RestartFlagRestored ==
    (kpc = "done" /\ ksup /\ ~ExitHandlingPending(kname))
        => file.services[kname] = Restart

\* C3: the observation task that handles an exit caused by a kill of a service
\* whose restart flag was true reads restart=false when it re-reads the
\* configuration, and so does not loop back into spawn.
C3_KilledTaskReadsDisabledFlag ==
    [][\A t \in Tasks :
         ( /\ tpc[t] = "exited" /\ tpc'[t] = "decide"
           /\ tpid[t] \in signalled
           /\ kname = tname[t] /\ ksup /\ kpc \in {"restore", "finish", "done"} )
         => tcfg'[t].services[tname[t]] = NoRestart]_vars

C5_RestartCycleSpawns ==
    [][\A t \in Tasks :
         ( /\ tpc[t] = "loop" /\ tcycle[t] = 1
           /\ \A u \in Tasks \ {t} : tname[u] # tname[t]
           /\ ~KillInProgress(tname[t]) )
         => tpc'[t] # "panicked"]_vars

\* C6: once the observation task of a service whose restart flag is false has
\* removed the record and ended, the record stays removed (info fails, start
\* is accepted) for as long as no task of the service is active.
C6_RemovedRecordStaysRemoved ==
    [][\A n \in DefinedNames :
         ( /\ file.services[n] = NoRestart
           /\ file.service_states[n] = NoRecord
           /\ ~ActiveTask(n)
           /\ ~KillInProgress(n) )
         => file'.service_states[n] = NoRecord]_vars

\* C7 as stated: a start fails NotFound whenever the name has no definition,
\* and AlreadyRunning whenever the state table holds a record for the name.
C7_NotFoundWheneverUndefined ==
    [][\A t \in Tasks :
         /\ (tpc[t] = "loop" /\ tpc'[t] # "loop" /\ file.services[tname[t]] = Undefined)
               => (tpc'[t] = "panicked" /\ terr'[t] = ErrDoesNotExist)
         /\ (tpc[t] = "loop" /\ tpc'[t] # "loop" /\ file.service_states[tname[t]] # NoRecord)
               => (tpc'[t] = "panicked" /\ terr'[t] = ErrAlreadyRunning)]_vars

\* C7 amended: a start fails AlreadyRunning when the state table holds a record
\* for the name, and NotFound when the name has no definition and no record;
\* a failed start spawns nothing and leaves the configuration as it is; the
\* record a start persists holds the identifier of the process it spawned.
C7_StartErrorsAndRecord ==
    [][\A t \in Tasks :
         /\ (tpc[t] = "loop" /\ tpc'[t] # "loop" /\ file.service_states[tname[t]] # NoRecord)
               => /\ tpc'[t] = "panicked" /\ terr'[t] = ErrAlreadyRunning
                  /\ UNCHANGED <<file, pstate, psvc>>
         /\ (tpc[t] = "loop" /\ tpc'[t] # "loop" /\ file.service_states[tname[t]] = NoRecord
                /\ file.services[tname[t]] = Undefined)
               => /\ tpc'[t] = "panicked" /\ terr'[t] = ErrDoesNotExist
                  /\ UNCHANGED <<file, pstate, psvc>>
         /\ (file'.service_states # file.service_states /\ tpc[t] = "save" /\ tpc'[t] # "save")
               => /\ file'.service_states[tname[t]] = tpid[t]
                  /\ pstate[tpid[t]] # "unused"
                  /\ psvc[tpid[t]] = tname[t]
         /\ (tpc[t] = "loop" /\ tpc'[t] = "save")
               => /\ pstate[tpid'[t]] = "unused" /\ pstate'[tpid'[t]] = "running"
                  /\ tcfg'[t].service_states[tname[t]] = tpid'[t]
                  /\ file' = file]_vars

\* C7 witness: one start has failed AlreadyRunning and another NotFound, while
\* the record of the running service holds the identifier of its process.
C7_Witness ==
    /\ \E t \in Tasks : tpc[t] = "panicked" /\ terr[t] = ErrAlreadyRunning
    /\ \E t \in Tasks : tpc[t] = "panicked" /\ terr[t] = ErrDoesNotExist
    /\ \E n \in DefinedNames :
          /\ file.service_states[n] # NoRecord
          /\ psvc[file.service_states[n]] = n

\* C8: for a defined service with no entry in the state table, kill and info
\* fail with the NotRunning error, which is not the NotFound kind.
C8_NeverStartedIsNotRunning ==
    \A n \in DefinedNames :
        (file.services[n] # Undefined /\ file.service_states[n] = NoRecord)
            => /\ KillResult(n, file) = ErrNotRunning
               /\ InfoResult(n, file.service_states) = ErrNotRunning
               /\ KillResult(n, file).kind # ErrDoesNotExist.kind

\* C9: a request with a key that is not the server's is answered with the
\* fixed failure payload, the same for every service name, and changes
\* nothing: no task, no process, no signal, no write.
C9_WrongKeyNoAction ==
    [][\A n \in Names, k \in Keys \ {ServerKey} :
         /\ StartRequest(n, k)
               => /\ resp' = Response("start", FALSE, 401)
                  /\ UNCHANGED <<file, procVars, taskVars, killVars>>
         /\ KillRequest(n, k)
               => /\ resp' = Response("kill", FALSE, 401)
                  /\ UNCHANGED <<file, procVars, taskVars, killVars>>
         /\ InfoRequest(n, k)
               => /\ resp' = Response("info", FALSE, 0)
                  /\ UNCHANGED <<file, procVars, taskVars, killVars>>]_vars

\* C9 witness: /kill has just answered 401 while a service is running with its
\* record persisted.
C9_Witness ==
    /\ resp = Response("kill", FALSE, 401)
    /\ \E p \in Pids : pstate[p] = "running" /\ file.service_states[psvc[p]] = p

\* C10: an info request, answered with a snapshot or with a failure, leaves
\* the configuration, the state table and the processes as they are.
C10_InfoChangesNothing ==
    [][\A n \in Names, k \in Keys :
         InfoRequest(n, k) => UNCHANGED <<file, procVars, taskVars, killVars>>]_vars

\* C10 witness: /info has answered with the snapshot of a running process
\* while another record is stale (its process is gone).
C10_Witness ==
    /\ resp.op = "info" /\ resp.ok
    /\ pstate[resp.data] = "running"
    /\ \E n \in DefinedNames :
          /\ file.service_states[n] # NoRecord
          /\ ~SysProcess(file.service_states[n])

\* C11: a record whose process is gone is transient: while it is persisted,
\* an actor that will remove it is under way (the observation task handling
\* the exit, or a /kill handler); info queries and fair task scheduling do the
\* rest.  With every task ended and no handler under way nothing is left to
\* remove it: kill fails on the lookup, start fails AlreadyRunning, info writes
\* nothing.
C11_StaleRecordHasRemover ==
    \A n \in Names : StaleRecord(n) => ~Quiescent

\* C12: a write of the configuration changes only what its actor means to
\* change: every other record and restart flag is after the write as it was
\* in the file before it.
C12_WritesKeepOtherUpdates ==
    [][/\ \A t \in Tasks :
            (tpc[t] \in {"save", "decide"} /\ tpc'[t] # tpc[t])
               => /\ file'.services = file.services
                  /\ \A n \in Names \ {tname[t]} :
                        file'.service_states[n] = file.service_states[n]
       /\ (kpc \in {"disable", "restore"} /\ kpc' # kpc)
               => /\ file'.service_states = file.service_states
                  /\ \A n \in Names \ {kname} : file'.services[n] = file.services[n]
       /\ (kpc = "finish" /\ kpc' # kpc)
               => /\ file'.services = file.services
                  /\ \A n \in Names \ {kname} :
                        file'.service_states[n] = file.service_states[n]]_vars

\* C13: a POST /start with the right key for a name that has no definition, or
\* that has a record in the state table, is answered with ok=false.
C13_FailedStartAnsweredAsFailure ==
    [][\A n \in Names :
         ( /\ StartRequest(n, ServerKey)
           /\ (file.services[n] = Undefined \/ file.service_states[n] # NoRecord) )
         => resp'.ok = FALSE]_vars

\* C16: the exit handling of an observation task always ends with no record
\* of its service in the file, also when the definition is gone.
C16_ExitHandlingRemovesRecord ==
    [][\A t \in Tasks :
         (tpc[t] = "decide" /\ tpc'[t] # "decide")
            => file'.service_states[tname[t]] = NoRecord]_vars

\* C19: a kill that finds a record whose pid is not in the process table fails
\* ProcessLookupFailed, /kill answers 400, and nothing changes: no signal, no
\* write, the restart flag untouched.
C19_LookupFailureNoSideEffect ==
    [][\A n \in Names :
         ( /\ KillRequest(n, ServerKey)
           /\ file.service_states[n] # NoRecord
           /\ file.services[n] # Undefined
           /\ ~SysProcess(file.service_states[n]) )
         => /\ KillResult(n, file) = ErrProcessLookup
            /\ resp' = Response("kill", FALSE, 400)
            /\ UNCHANGED <<file, procVars, taskVars, killVars>>]_vars

\* C19 witness: /kill has answered 400 for daemon, whose restart flag is true
\* and whose record names a process that is gone.
C19_Witness ==
    /\ resp = Response("kill", FALSE, 400)
    /\ file.services["daemon"] = Restart
    /\ StaleRecord("daemon")
    /\ kpc = "idle"

\* C20: a kill of a name that has a record but no definition fails NotFound,
\* /kill answers 400, and nothing changes: no signal, no write, the process and
\* the record stay; a signal is sent only by a kill whose configuration
\* defines the name.
C20_KillOnlyDefinedNames ==
    [][/\ \A n \in DefinedNames :
            ( /\ KillRequest(n, ServerKey)
              /\ file.service_states[n] # NoRecord
              /\ file.services[n] = Undefined )
            => /\ KillResult(n, file) = ErrDoesNotExist
               /\ resp' = Response("kill", FALSE, 400)
               /\ UNCHANGED <<file, procVars, taskVars, killVars>>
       /\ signalled' # signalled => kcfg.services[kname] # Undefined]_vars

\* C20 witness: /kill has answered 400 for web, whose definition is gone while
\* its recorded process runs on, unsignalled.
C20_Witness ==
    /\ resp = Response("kill", FALSE, 400)
    /\ file.services["web"] = Undefined
    /\ file.service_states["web"] # NoRecord
    /\ pstate[file.service_states["web"]] = "running"
    /\ file.service_states["web"] \notin signalled
    /\ kpc = "idle"

\* C17: a kill of a service whose restart flag is true signals only after its
\* write of restart=false has landed: the handler passes from the write to
\* the signal only with the flag persisted as false, a failed write ends the
\* call with the 400 answer and no signal, and no signal is sent from any
\* other position.
C17_SignalAfterDisableWrite ==
    [][/\ (kpc = "disable" /\ kpc' = "signal")
            => file'.services[kname] = NoRestart
       /\ (kpc = "disable" /\ kpc' \notin {"disable", "signal"})
            => /\ resp' = Response("kill", FALSE, 400)
               /\ UNCHANGED <<file, procVars>>
       /\ (kpc' = "signal" /\ kpc # "signal" /\ ksup') => kpc = "disable"
       /\ signalled' # signalled => kpc = "signal"]_vars

\* C17 witness: the kill of daemon (restart=true) has sent its signal, with
\* restart=false in the file.
C17_Witness ==
    /\ kpc = "restore"
    /\ ksup
    /\ kname = "daemon"
    /\ kcfg.service_states["daemon"] \in signalled
    /\ file.services["daemon"] = NoRestart

\* C18: when the only observation task of a service fails on the process
\* lookup, on a write of the configuration or on a spawn, the file holds no
\* record of its service.
C18_FailedTaskLeavesNoRecord ==
    [][\A t \in Tasks :
         ( /\ tpc[t] # "panicked"
           /\ tpc'[t] = "panicked"
           /\ terr'[t] \in {ErrProcessLookup, ErrConfigIO, ErrSpawnIO}
           /\ \A u \in Tasks \ {t} : TaskEnded(u) \/ tname[u] # tname[t] )
         => file'.service_states[tname[t]] = NoRecord]_vars

\* The positions of the primary file's `inherit` list whose file can be read
\* and defines `name`.
Defining(name) ==
    LET paths == IF primary.text.inherit = Absent THEN <<>> ELSE primary.text.inherit[1]
    IN  { i \in 1..Len(paths) :
            /\ inherited[paths[i]].exists
            /\ name \in DOMAIN inherited[paths[i]].text.services }

\* The definition of `name` in the last inherited file that defines it.
LastInherited(name) ==
    LET paths == primary.text.inherit[1]
        last == CHOOSE i \in Defining(name) : \A j \in Defining(name) : j <= i
    IN  ServiceFromToml(inherited[paths[last]].text.services[name])

\* C14: what get_config returns for a primary file that exists: a name that
\* inherited files define has the definition of the last of them in the
\* list, whatever the primary file says; a name only the primary file defines
\* has that definition; no other name is defined; the server settings and the
\* state table are the primary file's.
C14_InheritedOverlayInOrder ==
    (lpc = "loaded" /\ primary.exists) =>
        /\ \A n \in Names :
              IF Defining(n) # {}
              THEN n \in DOMAIN res.services /\ res.services[n] = LastInherited(n)
              ELSE IF n \in DOMAIN primary.text.services
              THEN /\ n \in DOMAIN res.services
                   /\ res.services[n] = ServiceFromToml(primary.text.services[n])
              ELSE n \notin DOMAIN res.services
        /\ res.server = FromStr(primary.text).server
        /\ res.service_states = FromStr(primary.text).service_states

\* C14 witness: web is defined by the primary file and by both inherited
\* files, which disagree, and the one listed last has won; daemon is defined
\* by the primary file only; the inherited files carry settings and records of
\* their own.
C14_Witness ==
    /\ lpc = "loaded"
    /\ primary.exists
    /\ primary.text.inherit = Present(<<"extra.toml", "base.toml">>)
    /\ DOMAIN primary.text.services = {"web", "daemon"}
    /\ primary.text.services["web"].command = "a"
    /\ primary.text.server = Present(OtherServer)
    /\ inherited["extra.toml"].exists /\ inherited["base.toml"].exists
    /\ DOMAIN inherited["extra.toml"].text.services = {"web"}
    /\ DOMAIN inherited["base.toml"].text.services = {"web"}
    /\ inherited["extra.toml"].text.services["web"].command = "a"
    /\ inherited["base.toml"].text.services["web"].command = "b"
    /\ inherited["base.toml"].text.server = Present(ForeignServer)
    /\ res.services["web"] = [command |-> "b", restart |-> TRUE]
    /\ res.services["daemon"] = ServiceFromToml(primary.text.services["daemon"])
    /\ res.server = OtherServer

\* C15: get_config after update_config(get_config()) returns the services,
\* the server settings and the state table the first get_config returned.
C15_SaveLoadRoundTrip ==
    lpc = "reloaded" =>
        /\ res.services = first.services
        /\ res.server = first.server
        /\ res.service_states = first.service_states

\* C15 witness: the round trip is done for a hand-written primary file with a
\* state table and settings of its own, to which an inherited file contributed
\* a service it did not define, and which the save has rewritten.
C15_Witness ==
    /\ lpc = "reloaded"
    /\ first.inherit = Present(<<"base.toml">>)
    /\ inherited["base.toml"].exists
    /\ "web" \in DOMAIN inherited["base.toml"].text.services
    /\ DOMAIN first.services = {"web", "daemon"}
    /\ first.services["daemon"] = [command |-> "a", restart |-> FALSE]
    /\ first.service_states = OtherStates
    /\ first.server = OtherServer
    /\ primary.text.comment = Header
    /\ DOMAIN primary.text.services = {"web", "daemon"}

====
